---- MODULE Spec2Model ----
(***************************************************************************)
(* Client-side behaviour of the portfolio site: the orchestrator           *)
(* PortfolioApp, its four components (NavigationManager, ScrollManager,    *)
(* AnimationManager, ThemeManager), the rate-limiting wrappers and the     *)
(* visitor tracking of tracking.js, as a state machine over the browser    *)
(* events that drive them.                                                 *)
(*                                                                         *)
(* Every method of the source is an operator from a "world" record (the    *)
(* page, the DOM, the storage, the objects' fields, the pending timers) to *)
(* the world after the call; the field `thrown` of a world says that the   *)
(* call ended by throwing.  An action is one browser task: it runs every   *)
(* listener the event reaches, in registration order, to completion.       *)
(***************************************************************************)
EXTENDS Integers, Sequences, FiniteSets, TLC

VARIABLES page, env, dom, listeners, app, nav, scroll, anim, theme, timers, hist, track

vars == <<page, env, dom, listeners, app, nav, scroll, anim, theme, timers, hist, track>>

(***************************************************************************)
(* Bounds of the model.                                                    *)
(***************************************************************************)
MaxInitCalls == 2      \* calls of PortfolioApp.init() in one behaviour
MaxElements == 2       \* animatable elements the page can hold
MaxBurst == 3          \* calls / invocations counted within one instant
MaxLoads == 2          \* page loads in one browser
MaxAnimations == 2     \* animateElement calls counted per element

(***************************************************************************)
(* Constants of the program.                                               *)
(***************************************************************************)
DEBOUNCE_WAIT == 250
THROTTLE_LIMIT == 16
DesktopBreakpoint == 768
NavScrollThreshold == 50
ScrollTopThreshold == 300
ActiveLinkOffset == 100
TypeStartDelay == 500
TypeSpeed == 100
CursorDelay == 1000

Null == "<null>"       \* what getItem returns for a key that is not stored
NoTimer == -1          \* no timeout pending
NoPosition == -1       \* setActiveLink has not completed yet

ComponentNames == <<"navigation", "scroll", "animation", "theme">>
Names == {ComponentNames[i] : i \in 1..Len(ComponentNames)}
GlobalEvents == {"visibilitychange", "resize", "error"}
ListenerNames == GlobalEvents \cup {"nav.toggle.click", "nav.link.click", "nav.document.click",
                                    "nav.scroll", "scroll.scroll", "scroll.button.click",
                                    "theme.change"}

Elements == 1..MaxElements

Min(a, b) == IF a < b THEN a ELSE b

(***************************************************************************)
(* The page markup and the browser: what the scripts are loaded into.      *)
(* A string (an href, a section id) is a sequence of characters.           *)
(***************************************************************************)
Link(hasHref, href, inMenu) == [hasHref |-> hasHref, href |-> href, inMenu |-> inMenu]
Section(id, top) == [id |-> id, top |-> top]

LinkLists ==
    { <<>>,
      << Link(TRUE, <<"#", "a">>, TRUE), Link(TRUE, <<"#", "b">>, TRUE) >>,
      << Link(TRUE, <<"#", "b">>, TRUE), Link(TRUE, <<"x", "a">>, FALSE) >>,
      << Link(TRUE, <<"#">>, TRUE), Link(TRUE, <<"#", "c">>, FALSE) >>,
      << Link(TRUE, <<"#", "a">>, TRUE), Link(FALSE, <<>>, TRUE) >> }

SectionLists ==
    { <<>>,
      << Section(<<"a">>, 0), Section(<<"b">>, 500), Section(<<"c">>, 1000) >>,
      << Section(<<"a">>, 500), Section(<<"b">>, 1000) >> }

HeroTexts == { <<>>, <<"O", "T">> }   \* <<>>: the page has no headline element
ScrollYs == {0, 430}
Widths == {600, 1024}
ThemeStoredValues == {Null, "light", "dark", "", "blue", "Dark"}

Pages ==
    [ hasNavbar : BOOLEAN, hasToggle : BOOLEAN, hasMenu : BOOLEAN,
      navLinks : LinkLists, sections : SectionLists,
      navbarHeight : {70}, heroText : HeroTexts,
      hasMetaThemeColor : BOOLEAN,
      hasIntersectionObserver : BOOLEAN, hasMatchMedia : BOOLEAN ]

(***************************************************************************)
(* Constructors: the fields each class sets in its constructor.            *)
(***************************************************************************)
PortfolioApp_new ==
    [ components |-> [n \in Names |-> 0], order |-> <<>>, isInitialized |-> FALSE,
      instances |-> 0 ]

NavigationManager_new ==
    [ navbar |-> FALSE, navToggle |-> FALSE, navMenu |-> FALSE, navLinks |-> <<>>,
      isMenuOpen |-> FALSE ]

ScrollManager_new == [ scrollToTopButton |-> FALSE ]

AnimationManager_new ==
    [ observedElements |-> {}, intersectionObserver |-> FALSE, targets |-> {},
      isAnimationPaused |-> FALSE, text |-> <<>>, charIndex |-> 0 ]

ThemeManager_new == [ currentTheme |-> "light", prefersDarkMode |-> FALSE ]

(***************************************************************************)
(* tracking.js: what the script reads of the browser, and what it leaves.  *)
(***************************************************************************)
SourceParams == <<"source", "utm_source", "ref">>
CampaignParams == <<"campaign", "utm_campaign">>
MediumParams == <<"medium", "utm_medium">>
ParamNames ==
    {"source", "utm_source", "ref", "campaign", "utm_campaign", "medium", "utm_medium"}

\* URLSearchParams.get: null for an absent parameter, else its first value, which
\* may be empty; a parameter that is present carries its own name as its value here
ParamValues(name) == {Null, "", name}

Searches ==
    {f \in [ParamNames -> {Null, ""} \cup ParamNames] :
        \A name \in ParamNames : f[name] \in ParamValues(name)}

LocalHosts == {"localhost", "127.0.0.1"}
Hostnames == LocalHosts \cup {"omartaha.ca"}

Locations ==
    [ search : Searches, hostname : Hostnames, pathname : {"/"}, referrer : {""},
      userAgent : {"UA"} ]

DirectLocation ==
    [ search |-> [name \in ParamNames |-> Null], hostname |-> "omartaha.ca",
      pathname |-> "/", referrer |-> "", userAgent |-> "UA" ]

\* identifiers an earlier visit may have stored, and the ones Date.now() and
\* Math.random() can give this time
VisitorStoredValues == {Null, "visitor_0"}
FreshIds == {"visitor_1", "visitor_2"}
Times == {1, 2}

\* sent and logged hold what the current document has sent and logged
Tracking_new(location) ==
    [ location |-> location, readyState |-> "none", listener |-> 0,
      session |-> Null, sent |-> <<>>, logged |-> <<>>, returned |-> Null,
      loads |-> 0, calls |-> 0, generated |-> 0, reported |-> {} ]

OrNullish(a, b) == IF a # Null THEN a ELSE b

\* a || b of JavaScript on strings and null
Or(a, b) == IF a # Null /\ a # "" THEN a ELSE b

getUrlParameter(w, name) == w.track.location.search[name]

\* the identifier is left in track.returned; id is what Date.now() and Math.random() give
getVisitorIdAlwaysNew(w, id) ==
    [w EXCEPT !.env.storage["visitor_id"] = id,
              !.track.generated = @ + 1,
              !.track.returned = id]

getVisitorId(w, id) ==
    LET visitorId == w.env.storage["visitor_id"]
    IN  IF visitorId = Null \/ visitorId = ""
        THEN [w EXCEPT !.env.storage["visitor_id"] = id,
                       !.track.generated = @ + 1,
                       !.track.returned = id]
        ELSE [w EXCEPT !.track.returned = visitorId]

\* the first of the parameters that is truthy, else the default
RECURSIVE firstTruthy(_, _, _, _)
firstTruthy(w, names, i, default) ==
    IF i > Len(names) THEN default
    ELSE Or(getUrlParameter(w, names[i]), firstTruthy(w, names, i + 1, default))

payload(w, now) ==
    [ source |-> firstTruthy(w, SourceParams, 1, "direct"),
      campaign |-> firstTruthy(w, CampaignParams, 1, ""),
      medium |-> firstTruthy(w, MediumParams, 1, ""),
      referrer |-> w.track.location.referrer,
      user_agent |-> w.track.location.userAgent,
      page |-> w.track.location.pathname,
      timestamp |-> now,
      visitor_id |-> w.track.returned ]

\* fetch(...) is the attempt to send; its rejection is swallowed by .catch
sendUnlessLocalhost(w, data) ==
    LET w1 == IF w.track.location.hostname # "localhost"
              THEN [w EXCEPT !.track.sent = Append(@, data)]
              ELSE w
    IN  [w1 EXCEPT !.track.logged = Append(@, data)]

sendUnlessLocal(w, data) ==
    LET w1 == IF w.track.location.hostname # "localhost"
                 /\ w.track.location.hostname # "127.0.0.1"
              THEN [w EXCEPT !.track.sent = Append(@, data)]
              ELSE w
    IN  [w1 EXCEPT !.track.logged = Append(@, data)]     \* console.log

trackVisitor(w, now, id) ==
    LET w1 == getVisitorId(w, id)
        data == payload(w1, now)
        w2 == sendUnlessLocal(w1, data)
        w3 == IF data.source # "direct" THEN [w2 EXCEPT !.track.session = data.source] ELSE w2
    IN  [w3 EXCEPT !.track.calls = @ + 1,
                   !.track.reported = @ \cup {data.visitor_id}]

(***************************************************************************)
(* Exceptions: a call that throws leaves the world as it was at the throw  *)
(* and sets `thrown`; a catch clears it.                                   *)
(***************************************************************************)
Throw(w) == [w EXCEPT !.thrown = TRUE]
Catch(w) == [w EXCEPT !.thrown = FALSE]

startsWithHash(s) == Len(s) > 0 /\ s[1] = "#"
substring1(s) == IF s = <<>> THEN <<>> ELSE Tail(s)

(***************************************************************************)
(* ThemeManager                                                            *)
(***************************************************************************)
hasUserPreference(w) == w.env.storage["portfolio-theme"] # Null

updateMetaThemeColor(w) ==
    IF w.page.hasMetaThemeColor
    THEN [w EXCEPT !.dom.metaThemeColor =
                       IF w.theme.currentTheme = "dark" THEN "#1e293b" ELSE "#ffffff"]
    ELSE w

applyThemeAttributeOnly(w) == [w EXCEPT !.dom.dataTheme = w.theme.currentTheme]

applyTheme(w) == updateMetaThemeColor([w EXCEPT !.dom.dataTheme = w.theme.currentTheme])

saveThemeSkipped(w) == w

saveTheme(w) == [w EXCEPT !.env.storage["portfolio-theme"] = w.theme.currentTheme]

toggleTheme(w) ==
    LET flipped == [w EXCEPT !.theme.currentTheme = IF @ = "light" THEN "dark" ELSE "light"]
    IN  saveTheme(applyTheme(flipped))

onSystemChangeAlways(w, matches) ==
    applyTheme([w EXCEPT !.theme.currentTheme = IF matches THEN "dark" ELSE "light"])

\* the listener detectSystemPreference registers for the media query's 'change'
onSystemChange(w, matches) ==
    IF ~hasUserPreference(w)
    THEN applyTheme([w EXCEPT !.theme.currentTheme = IF matches THEN "dark" ELSE "light"])
    ELSE w

detectSystemPreference(w) ==
    IF ~w.page.hasMatchMedia
    THEN Throw(w)                      \* window.matchMedia is not a function
    ELSE [w EXCEPT !.theme.prefersDarkMode = w.env.systemDark,
                   !.listeners["theme.change"] = @ + 1]

loadSavedThemeSystemOnly(w) ==
    [w EXCEPT !.theme.currentTheme = IF w.theme.prefersDarkMode THEN "dark" ELSE "light"]

loadSavedTheme(w) ==
    LET savedTheme == w.env.storage["portfolio-theme"]
    IN  IF savedTheme # Null /\ savedTheme # "" /\ savedTheme \in {"light", "dark"}
        THEN [w EXCEPT !.theme.currentTheme = savedTheme]
        ELSE [w EXCEPT !.theme.currentTheme =
                           IF w.theme.prefersDarkMode THEN "dark" ELSE "light"]

ThemeManager_init(w) ==
    LET w1 == detectSystemPreference(w)
    IN  IF w1.thrown THEN w1 ELSE applyTheme(loadSavedTheme(w1))

(***************************************************************************)
(* NavigationManager                                                       *)
(***************************************************************************)
cacheElementsUnchecked(w) ==
    [w EXCEPT !.nav.navbar = w.page.hasNavbar,
              !.nav.navToggle = w.page.hasToggle,
              !.nav.navMenu = w.page.hasMenu,
              !.nav.navLinks = w.page.navLinks]

cacheElements(w) ==
    LET w1 == [w EXCEPT !.nav.navbar = w.page.hasNavbar,
                        !.nav.navToggle = w.page.hasToggle,
                        !.nav.navMenu = w.page.hasMenu,
                        !.nav.navLinks = w.page.navLinks]
    IN  IF ~w1.nav.navbar \/ ~w1.nav.navToggle \/ ~w1.nav.navMenu THEN Throw(w1) ELSE w1

NavigationManager_bindEvents(w) ==
    [w EXCEPT !.listeners["nav.toggle.click"] = @ + 1,
              !.listeners["nav.link.click"] = @ + 1,
              !.listeners["nav.document.click"] = @ + 1,
              !.listeners["nav.scroll"] = @ + 1]

toggleMobileMenuFlagOnly(w) == [w EXCEPT !.nav.isMenuOpen = ~w.nav.isMenuOpen]

toggleMobileMenu(w) ==
    LET open == ~w.nav.isMenuOpen
    IN  [w EXCEPT !.nav.isMenuOpen = open,
                  !.dom.navMenuActive = open,
                  !.dom.navToggleActive = open,
                  !.dom.bodyOverflow = IF open THEN "hidden" ELSE "",
                  !.dom.ariaExpanded = IF open THEN "true" ELSE "false"]

\* document.querySelector(targetId) for a selector "#id": the sections with that id
RECURSIVE findSection(_, _, _)
findSection(sections, i, id) ==
    IF i > Len(sections) THEN 0
    ELSE IF sections[i].id = id THEN i
    ELSE findSection(sections, i + 1, id)

scrollToSection(w, targetId) ==
    IF substring1(targetId) = <<>>
    THEN Throw(w)                      \* '#' is not a valid selector
    ELSE LET t == findSection(w.page.sections, 1, substring1(targetId))
         IN  IF t = 0 THEN w
             ELSE [w EXCEPT !.env.scrollTo = {w.page.sections[t].top - w.page.navbarHeight}]

handleNavLinkClick(w, i) ==
    LET link == w.nav.navLinks[i]
    IN  IF ~link.hasHref THEN Throw(w)               \* null.startsWith
        ELSE IF startsWithHash(link.href)
        THEN LET w1 == scrollToSection([w EXCEPT !.hist.defaultPrevented = TRUE], link.href)
             IN  IF w1.thrown THEN w1
                 ELSE IF w1.nav.isMenuOpen THEN toggleMobileMenu(w1) ELSE w1
        ELSE w

handleOutsideClickNotExcludingToggle(w, inMenu, inToggle) ==
    IF w.nav.isMenuOpen /\ ~inMenu THEN toggleMobileMenu(w) ELSE w

handleOutsideClickAnyState(w, inMenu, inToggle) ==
    IF ~inMenu /\ ~inToggle THEN toggleMobileMenu(w) ELSE w

handleOutsideClick(w, inMenu, inToggle) ==
    IF w.nav.isMenuOpen /\ ~inMenu /\ ~inToggle THEN toggleMobileMenu(w) ELSE w

\* sections.forEach of setActiveLink: the id of the last section at or above the position
RECURSIVE scanSections(_, _, _, _)
scanSections(sections, i, scrollPosition, currentSection) ==
    IF i > Len(sections) THEN currentSection
    ELSE scanSections(sections, i + 1, scrollPosition,
                      IF scrollPosition >= sections[i].top THEN sections[i].id
                      ELSE currentSection)

\* navLinks.forEach of setActiveLink; a link without href throws and ends the loop
RECURSIVE markLinks(_, _, _)
markLinks(w, i, currentSection) ==
    IF i > Len(w.nav.navLinks) THEN w
    ELSE IF ~w.nav.navLinks[i].hasHref THEN Throw(w)
    ELSE markLinks([w EXCEPT !.dom.activeLinks =
                                 IF substring1(w.nav.navLinks[i].href) = currentSection
                                 THEN @ \cup {i} ELSE @ \ {i}],
                   i + 1, currentSection)

setActiveLink(w) ==
    LET scrollPosition == w.env.scrollY + w.page.navbarHeight + ActiveLinkOffset
        currentSection == scanSections(w.page.sections, 1, scrollPosition, <<>>)
        w1 == markLinks(w, 1, currentSection)
    IN  IF w1.thrown THEN w1 ELSE [w1 EXCEPT !.hist.activePosition = scrollPosition]

NavigationManager_handleScroll(w) ==
    setActiveLink([w EXCEPT !.dom.navbarScrolled = (w.env.scrollY > NavScrollThreshold)])

NavigationManager_handleResize(w) ==
    IF w.env.innerWidth > DesktopBreakpoint /\ w.nav.isMenuOpen THEN toggleMobileMenu(w) ELSE w

NavigationManager_init(w) ==
    LET w1 == cacheElements(w)
    IN  IF w1.thrown THEN w1 ELSE setActiveLink(NavigationManager_bindEvents(w1))

(***************************************************************************)
(* ScrollManager                                                           *)
(***************************************************************************)
createScrollToTopButton(w) ==
    [w EXCEPT !.scroll.scrollToTopButton = TRUE,
              !.dom.scrollToTopButtons = @ + 1,
              !.dom.buttonShown = FALSE]

ScrollManager_bindEvents(w) ==
    [w EXCEPT !.listeners["scroll.scroll"] = @ + 1,
              !.listeners["scroll.button.click"] = @ + 1]

ScrollManager_handleScroll(w) ==
    [w EXCEPT !.dom.buttonShown = (w.env.scrollY > ScrollTopThreshold)]

scrollToTop(w) == [w EXCEPT !.env.scrollTo = {0}]

ScrollManager_init(w) == ScrollManager_bindEvents(createScrollToTopButton(w))

(***************************************************************************)
(* AnimationManager.  `targets` is the observation list the watcher keeps  *)
(* (observe adds to it, unobserve removes from it); observedElements is    *)
(* the component's own Set.                                                *)
(***************************************************************************)
setupIntersectionObserver(w) ==
    IF ~w.page.hasIntersectionObserver
    THEN Throw(w)                      \* IntersectionObserver is not defined
    ELSE [w EXCEPT !.anim.intersectionObserver = TRUE, !.anim.targets = {}]

observeElements(w) ==
    IF w.dom.elements = {} THEN w
    ELSE IF ~w.anim.intersectionObserver
    THEN \* the first element gets its class, then null.observe throws
         Throw([w EXCEPT !.dom.animateOnScroll =
                             @ \cup {CHOOSE e \in w.dom.elements :
                                        \A f \in w.dom.elements : e <= f}])
    ELSE [w EXCEPT !.dom.animateOnScroll = @ \cup w.dom.elements,
                   !.anim.targets = @ \cup w.dom.elements,
                   !.anim.observedElements = @ \cup w.dom.elements]

animateElement(w, element) ==
    [w EXCEPT !.dom.animated = @ \cup {element},
              !.hist.animateCount[element] = Min(@ + 1, MaxAnimations)]

unobserve(w, element) == [w EXCEPT !.anim.targets = @ \ {element}]

onEntryKeepObserving(w, element, isIntersecting) ==
    IF isIntersecting THEN animateElement(w, element) ELSE w

\* the body of entries.forEach in the watcher's callback
onEntry(w, element, isIntersecting) ==
    IF isIntersecting THEN unobserve(animateElement(w, element), element) ELSE w

RECURSIVE forEachEntry(_, _, _)
forEachEntry(w, entries, todo) ==
    IF todo = {} THEN w
    ELSE LET e == CHOOSE x \in todo : \A y \in todo : x <= y
         IN  forEachEntry(onEntry(w, e, entries[e]), entries, todo \ {e})

onIntersectionUnobservingWhilePaused(w, entries) ==
    IF w.anim.isAnimationPaused
    THEN [w EXCEPT !.anim.targets = @ \ {e \in DOMAIN entries : entries[e]}]
    ELSE forEachEntry(w, entries, DOMAIN entries)

onIntersectionIgnoringPause(w, entries) == forEachEntry(w, entries, DOMAIN entries)

\* the callback given to new IntersectionObserver; entries maps each reported
\* target to its isIntersecting
onIntersection(w, entries) ==
    IF w.anim.isAnimationPaused THEN w
    ELSE forEachEntry(w, entries, DOMAIN entries)

addTypingEffect(w) ==
    IF w.page.heroText = <<>> THEN w
    ELSE [w EXCEPT !.anim.text = w.dom.heroText,
                   !.anim.charIndex = 0,
                   !.dom.heroText = <<>>,
                   !.dom.heroCursor = TRUE,
                   !.timers.typeText = TypeStartDelay]

typeTextRescheduledForever(w) ==
    IF w.anim.charIndex < Len(w.anim.text)
    THEN [w EXCEPT !.dom.heroText = Append(@, w.anim.text[w.anim.charIndex + 1]),
                   !.anim.charIndex = @ + 1,
                   !.timers.typeText = TypeSpeed]
    ELSE [w EXCEPT !.timers.typeText = TypeSpeed]

typeText(w) ==
    IF w.anim.charIndex < Len(w.anim.text)
    THEN [w EXCEPT !.dom.heroText = Append(@, w.anim.text[w.anim.charIndex + 1]),
                   !.anim.charIndex = @ + 1,
                   !.timers.typeText = TypeSpeed]
    ELSE [w EXCEPT !.timers.typeText = NoTimer, !.timers.removeCursor = CursorDelay]

removeCursor(w) == [w EXCEPT !.dom.heroCursor = FALSE, !.timers.removeCursor = NoTimer]

pause(w) == [w EXCEPT !.anim.isAnimationPaused = TRUE]

resume(w) == [w EXCEPT !.anim.isAnimationPaused = FALSE]

\* ghost hist.reobserved: whether this call ran observeElements
AnimationManager_handleResize(w) ==
    IF Cardinality(w.anim.observedElements) = 0
    THEN observeElements([w EXCEPT !.hist.reobserved = TRUE])
    ELSE [w EXCEPT !.hist.reobserved = FALSE]

AnimationManager_init(w) ==
    LET w1 == setupIntersectionObserver(w)
    IN  IF w1.thrown THEN w1
        ELSE LET w2 == observeElements(w1)
             IN  IF w2.thrown THEN w2 ELSE addTypingEffect(w2)

(***************************************************************************)
(* The rate-limiting wrappers.  A pending timeout is the number of         *)
(* milliseconds left until its callback runs.                              *)
(***************************************************************************)
ThrottleKeys == {"nav", "scroll"}

\* func.apply(context, args), counted
countedHandleScroll(w, key) ==
    [w EXCEPT !.hist.invokedNow[key] = Min(@ + 1, MaxBurst),
              !.hist.gap[key] = w.hist.sinceInvoke[key],
              !.hist.sinceInvoke[key] = 0]

\* the handler each throttle instance wraps
func(w, key) ==
    IF key = "nav" THEN NavigationManager_handleScroll(countedHandleScroll(w, key))
    ELSE ScrollManager_handleScroll(countedHandleScroll(w, key))

\* the function returned by throttle(func, limit), called once
throttle(w, key) ==
    IF ~w.timers.inThrottle[key]
    THEN LET w1 == func(w, key)
         IN  IF w1.thrown THEN w1      \* func.apply threw: inThrottle is not set
             ELSE [w1 EXCEPT !.timers.inThrottle[key] = TRUE,
                             !.timers.throttleTimer[key] = THROTTLE_LIMIT]
    ELSE w

\* setTimeout(() => inThrottle = false, limit)
throttleTimeout(w, key) ==
    [w EXCEPT !.timers.inThrottle[key] = FALSE, !.timers.throttleTimer[key] = NoTimer]

executedFunctionKeepingTimer(w) ==
    IF w.timers.timeout # NoTimer THEN w ELSE [w EXCEPT !.timers.timeout = DEBOUNCE_WAIT]

\* the function returned by debounce(func, wait), called once
executedFunction(w) == [w EXCEPT !.timers.timeout = DEBOUNCE_WAIT]

(***************************************************************************)
(* PortfolioApp                                                            *)
(***************************************************************************)
registerComponents(w) ==
    [w EXCEPT !.app.components = [n \in Names |->
                                     w.app.instances
                                       + (CHOOSE i \in 1..Len(ComponentNames) :
                                             ComponentNames[i] = n)],
              !.app.instances = @ + Len(ComponentNames),
              !.app.order = IF @ = <<>> THEN ComponentNames ELSE @,
              !.nav = NavigationManager_new,
              !.scroll = ScrollManager_new,
              !.anim = AnimationManager_new,
              !.theme = ThemeManager_new]

componentInit(w, name) ==
    CASE name = "navigation" -> NavigationManager_init(w)
      [] name = "scroll" -> ScrollManager_init(w)
      [] name = "animation" -> AnimationManager_init(w)
      [] name = "theme" -> ThemeManager_init(w)

\* component.init() of one registered component, counted
callInit(w, name) ==
    LET w1 == componentInit([w EXCEPT !.hist.initCalls[name] = @ + 1], name)
    IN  IF w1.thrown THEN [w1 EXCEPT !.hist.threw = @ \cup {name}] ELSE w1

tryInitUncaught(w, name) == callInit(w, name)

\* try { component.init() } catch (error) { console.error(...) }
tryInit(w, name) == Catch(callInit(w, name))

RECURSIVE forEachInit(_, _)
forEachInit(w, i) ==
    IF i > Len(w.app.order) \/ w.thrown THEN w
    ELSE forEachInit(tryInit(w, w.app.order[i]), i + 1)

initializeComponents(w) == forEachInit(w, 1)

PortfolioApp_bindEvents(w) ==
    [w EXCEPT !.listeners["visibilitychange"] = @ + 1,
              !.listeners["resize"] = @ + 1,
              !.listeners["error"] = @ + 1]

markInitializedForgotten(w) == w

markInitialized(w) == [w EXCEPT !.app.isInitialized = TRUE]

PortfolioApp_init(w) ==
    IF w.app.isInitialized THEN w
    ELSE LET w1 == registerComponents(w)
             w2 == IF w1.thrown THEN w1 ELSE initializeComponents(w1)
             w3 == IF w2.thrown THEN w2 ELSE PortfolioApp_bindEvents(w2)
             w4 == IF w3.thrown THEN w3 ELSE markInitialized(w3)
         IN  IF w4.thrown THEN Catch([w4 EXCEPT !.hist.initFailed = TRUE]) ELSE w4

handleVisibilityChange(w) ==
    IF w.app.components["animation"] = 0 THEN w
    ELSE IF w.env.visibilityState = "visible" THEN resume(w) ELSE pause(w)

componentHandleResize(w, name) ==
    CASE name = "navigation" ->
             NavigationManager_handleResize([w EXCEPT !.hist.fanout = @ \cup {name}])
      [] name = "animation" ->
             AnimationManager_handleResize([w EXCEPT !.hist.fanout = @ \cup {name}])
      [] OTHER -> w                    \* typeof component.handleResize !== 'function'

RECURSIVE forEachHandleResize(_, _)
forEachHandleResize(w, i) ==
    IF i > Len(w.app.order) \/ w.thrown THEN w
    ELSE forEachHandleResize(componentHandleResize(w, w.app.order[i]), i + 1)

PortfolioApp_handleResize(w) ==
    forEachHandleResize([w EXCEPT !.hist.fanout = {},
                                  !.hist.runs = Min(@ + 1, MaxBurst),
                                  !.hist.runAt = w.hist.sinceResize], 1)

\* the timeout callback of the debounced resize listener
later(w) == PortfolioApp_handleResize([w EXCEPT !.timers.timeout = NoTimer])

(***************************************************************************)
(* The state: the world the scripts run in.                                *)
(***************************************************************************)
W == [ page |-> page, env |-> env, dom |-> dom, listeners |-> listeners, app |-> app,
       nav |-> nav, scroll |-> scroll, anim |-> anim, theme |-> theme,
       timers |-> timers, hist |-> hist, track |-> track, thrown |-> FALSE ]

Commit(w) ==
    /\ page' = w.page
    /\ env' = w.env
    /\ dom' = w.dom
    /\ listeners' = w.listeners
    /\ app' = w.app
    /\ nav' = w.nav
    /\ scroll' = w.scroll
    /\ anim' = w.anim
    /\ theme' = w.theme
    /\ timers' = w.timers
    /\ hist' = w.hist
    /\ track' = w.track

\* localStorage: the theme key of script.js and the visitor key of tracking.js
Storages ==
    {[k \in {"portfolio-theme", "visitor_id"} |->
         IF k = "portfolio-theme" THEN t ELSE v] :
       t \in ThemeStoredValues, v \in VisitorStoredValues}

AllEnvs ==
    [ systemDark : BOOLEAN, visibilityState : {"visible"}, innerWidth : Widths,
      scrollY : {0}, scrollTo : {{}}, storage : Storages ]

\* the environments of a first visit
Envs == {e \in AllEnvs : e.storage["visitor_id"] = Null}

\* the document as the markup gives it, before any script has run
InitialDom(p, elements) ==
    [ elements |-> elements, navMenuActive |-> FALSE, navToggleActive |-> FALSE,
      bodyOverflow |-> "", ariaExpanded |-> "false", navbarScrolled |-> FALSE,
      activeLinks |-> {}, animated |-> {}, animateOnScroll |-> {},
      dataTheme |-> Null,
      metaThemeColor |-> IF p.hasMetaThemeColor THEN "markup" ELSE Null,
      scrollToTopButtons |-> 0, buttonShown |-> FALSE,
      heroText |-> p.heroText, heroCursor |-> FALSE ]

InitialHist ==
    [ appInitCalls |-> 0, initCalls |-> [n \in Names |-> 0], threw |-> {},
      initFailed |-> FALSE,
      first |-> [components |-> PortfolioApp_new.components,
                 initCalls |-> [n \in Names |-> 0],
                 listeners |-> [l \in ListenerNames |-> 0]],
      toggled |-> FALSE, defaultPrevented |-> FALSE, activePosition |-> NoPosition,
      click |-> [kind |-> "none", link |-> 0, seq |-> 0], toggles |-> 0,
      onlyToggles |-> TRUE,
      animateCount |-> [e \in Elements |-> 0], reported |-> {}, reportedPaused |-> {},
      reobserved |-> FALSE,
      resized |-> FALSE, sinceResize |-> DEBOUNCE_WAIT, runs |-> 0,
      runAt |-> DEBOUNCE_WAIT, fanout |-> {}, burstLost |-> FALSE, burst |-> 0,
      callsNow |-> [k \in ThrottleKeys |-> 0], invokedNow |-> [k \in ThrottleKeys |-> 0],
      sinceInvoke |-> [k \in ThrottleKeys |-> THROTTLE_LIMIT],
      gap |-> [k \in ThrottleKeys |-> THROTTLE_LIMIT] ]

InitialTimers ==
    [ timeout |-> NoTimer,
      inThrottle |-> [k \in ThrottleKeys |-> FALSE],
      throttleTimer |-> [k \in ThrottleKeys |-> NoTimer],
      typeText |-> NoTimer, removeCursor |-> NoTimer ]

InitDocument(pages, envs, elementSets) ==
    /\ page \in pages
    /\ env \in envs
    /\ \E elements \in elementSets : dom = InitialDom(page, elements)
    /\ listeners = [l \in ListenerNames |-> 0]
    /\ app = PortfolioApp_new
    /\ nav = NavigationManager_new
    /\ scroll = ScrollManager_new
    /\ anim = AnimationManager_new
    /\ theme = ThemeManager_new
    /\ timers = InitialTimers
    /\ hist = InitialHist

\* a page opened directly on its public host
InitFrom(pages, envs, elementSets) ==
    /\ InitDocument(pages, envs, elementSets)
    /\ track = Tracking_new(DirectLocation)

Init ==
    /\ InitDocument(Pages, AllEnvs, SUBSET Elements)
    /\ \E l \in Locations : track = Tracking_new(l)

(***************************************************************************)
(* Time.  Timeouts count down with the clock; the clock does not pass a    *)
(* timeout that is due, and a timeout that is due runs before the next     *)
(* event is dispatched.                                                    *)
(***************************************************************************)
PendingTimers(t) ==
    {t.timeout, t.typeText, t.removeCursor} \cup {t.throttleTimer[k] : k \in ThrottleKeys}

TimersSettled == 0 \notin PendingTimers(timers)

CountDown(x, d) == IF x = NoTimer THEN NoTimer ELSE x - d

\* d milliseconds pass
Tick(d) ==
    /\ \A x \in PendingTimers(timers) : x = NoTimer \/ x >= d
    /\ timers' = [timers EXCEPT !.timeout = CountDown(@, d),
                                !.typeText = CountDown(@, d),
                                !.removeCursor = CountDown(@, d),
                                !.throttleTimer = [k \in ThrottleKeys |-> CountDown(@[k], d)]]
    /\ hist' = [hist EXCEPT !.sinceResize = Min(@ + d, DEBOUNCE_WAIT),
                            !.sinceInvoke = [k \in ThrottleKeys |->
                                                Min(@[k] + d, THROTTLE_LIMIT)],
                            !.callsNow = [k \in ThrottleKeys |-> 0],
                            !.invokedNow = [k \in ThrottleKeys |-> 0]]
    /\ <<timers', hist'>> # <<timers, hist>>
    /\ UNCHANGED <<page, env, dom, listeners, app, nav, scroll, anim, theme, track>>

(***************************************************************************)
(* Timer callbacks.                                                        *)
(***************************************************************************)
ResizeTimeout ==
    /\ timers.timeout = 0
    /\ Commit(Catch(later(W)))         \* an error thrown here goes to window.onerror

ThrottleTimeout(key) ==
    /\ timers.throttleTimer[key] = 0
    /\ Commit(throttleTimeout(W, key))

TypeTextTimeout ==
    /\ timers.typeText = 0
    /\ Commit(typeText(W))

RemoveCursorTimeout ==
    /\ timers.removeCursor = 0
    /\ Commit(removeCursor(W))

(***************************************************************************)
(* Calls and browser events.                                               *)
(***************************************************************************)
\* app.init(), from DOMContentLoaded or from any holder of the instance
AppInit ==
    /\ TimersSettled
    /\ hist.appInitCalls < MaxInitCalls
    /\ LET w1 == PortfolioApp_init(W)
           snapshot == [components |-> w1.app.components,
                        initCalls |-> w1.hist.initCalls,
                        listeners |-> w1.listeners]
       IN  Commit([w1 EXCEPT !.hist.appInitCalls = @ + 1,
                             !.hist.first = IF hist.appInitCalls = 0 THEN snapshot ELSE @])

VisibilityChange(state) ==
    /\ TimersSettled
    /\ state # env.visibilityState
    /\ LET w1 == [W EXCEPT !.env.visibilityState = state]
       IN  Commit(IF listeners["visibilitychange"] > 0 THEN handleVisibilityChange(w1) ELSE w1)

PauseCall ==
    /\ TimersSettled
    /\ app.components["animation"] # 0
    /\ Commit(pause(W))

ResumeCall ==
    /\ TimersSettled
    /\ app.components["animation"] # 0
    /\ Commit(resume(W))

\* the watcher reports some of the targets it observes
Intersection(entries) ==
    /\ TimersSettled
    /\ anim.intersectionObserver
    /\ DOMAIN entries # {}
    /\ DOMAIN entries \subseteq anim.targets
    /\ LET intersecting == {e \in DOMAIN entries : entries[e]}
       IN  Commit(onIntersection(
                      [W EXCEPT !.hist.reported =
                                    IF anim.isAnimationPaused THEN @ ELSE @ \cup intersecting,
                                !.hist.reportedPaused =
                                    IF anim.isAnimationPaused THEN @ \cup intersecting ELSE @],
                      entries))

\* an element of an animated class is added to the document
DomInsert(element) ==
    /\ TimersSettled
    /\ element \notin dom.elements
    /\ dom' = [dom EXCEPT !.elements = @ \cup {element}]
    /\ UNCHANGED <<page, env, listeners, app, nav, scroll, anim, theme, timers, hist, track>>

ResizeEvent(width) ==
    /\ TimersSettled
    /\ LET w1 == [W EXCEPT !.env.innerWidth = width]
           w2 == [w1 EXCEPT !.hist.resized = TRUE,
                            !.hist.burstLost = @ \/ (w1.hist.resized /\ w1.hist.runs = 0
                                                       /\ w1.hist.sinceResize >= DEBOUNCE_WAIT),
                            !.hist.burst = IF w1.hist.resized
                                              /\ w1.hist.sinceResize < DEBOUNCE_WAIT
                                           THEN Min(@ + 1, MaxBurst) ELSE 1,
                            !.hist.sinceResize = 0,
                            !.hist.runs = 0]
       IN  Commit(IF listeners["resize"] > 0 THEN executedFunction(w2) ELSE w1)

countedCall(w, key) == [w EXCEPT !.hist.callsNow[key] = Min(@ + 1, MaxBurst)]

\* a scroll event reaches the listeners of both components, in registration order
ScrollEvent(y) ==
    /\ TimersSettled
    /\ LET w1 == [W EXCEPT !.env.scrollY = y]
           w2 == IF listeners["nav.scroll"] > 0
                 THEN Catch(throttle(countedCall(w1, "nav"), "nav"))
                 ELSE w1
           w3 == IF listeners["scroll.scroll"] > 0
                 THEN Catch(throttle(countedCall(w2, "scroll"), "scroll"))
                 ELSE w2
       IN  Commit(w3)

\* ghost: the click being delivered, and the parity of the clicks the toggle received
clicked(w, kind, i) ==
    [w EXCEPT !.hist.click = [kind |-> kind, link |-> i, seq |-> 1 - w.hist.click.seq],
              !.hist.toggles = IF kind = "toggle" THEN 1 - @ ELSE @,
              !.hist.onlyToggles = @ /\ kind = "toggle"]

\* a click on the toggle: its own listener runs, then the click bubbles to the document
ToggleClick ==
    /\ TimersSettled
    /\ page.hasToggle
    /\ LET w1 == IF listeners["nav.toggle.click"] > 0
                 THEN toggleMobileMenu(clicked(W, "toggle", 0)) ELSE W
           w2 == IF listeners["nav.document.click"] > 0
                 THEN handleOutsideClick(w1, FALSE, TRUE) ELSE w1
       IN  Commit(w2)

NavLinkClick(i) ==
    /\ TimersSettled
    /\ i \in 1..Len(page.navLinks)
    /\ LET w0 == [W EXCEPT !.hist.defaultPrevented = FALSE]
           w1 == IF listeners["nav.link.click"] > 0
                 THEN Catch(handleNavLinkClick(clicked(w0, "link", i), i)) ELSE w0
           w2 == IF listeners["nav.document.click"] > 0
                 THEN handleOutsideClick(w1, page.navLinks[i].inMenu, FALSE) ELSE w1
       IN  Commit(w2)

\* a click on something that is neither in the menu nor in the toggle
OutsideClick ==
    /\ TimersSettled
    /\ Commit(IF listeners["nav.document.click"] > 0
              THEN handleOutsideClick(clicked(W, "outside", 0), FALSE, FALSE) ELSE W)

ScrollTopClick ==
    /\ TimersSettled
    /\ listeners["scroll.button.click"] > 0
    /\ Commit(scrollToTop(W))

SystemThemeChange(matches) ==
    /\ TimersSettled
    /\ matches # env.systemDark
    /\ LET w1 == [W EXCEPT !.env.systemDark = matches]
       IN  Commit(IF listeners["theme.change"] > 0 THEN onSystemChange(w1, matches) ELSE w1)

ToggleThemeCall ==
    /\ TimersSettled
    /\ app.components["theme"] # 0
    /\ Commit(toggleTheme([W EXCEPT !.hist.toggled = TRUE]))

\* a later page load: a new document and new script state in the same browser, with
\* its localStorage and sessionStorage
newDocument(w) ==
    [w EXCEPT !.env.scrollY = 0, !.env.scrollTo = {}, !.env.visibilityState = "visible",
              !.dom = InitialDom(w.page, w.dom.elements),
              !.listeners = [l \in ListenerNames |-> 0],
              !.app = PortfolioApp_new,
              !.nav = NavigationManager_new,
              !.scroll = ScrollManager_new,
              !.anim = AnimationManager_new,
              !.theme = ThemeManager_new,
              !.timers = InitialTimers,
              !.hist = InitialHist,
              !.track.listener = 0, !.track.sent = <<>>, !.track.logged = <<>>,
              !.track.returned = Null]

\* tracking.js executes: it tracks at once, or waits for DOMContentLoaded
LoadPage(readyState, now, id) ==
    /\ track.loads < MaxLoads
    /\ track.readyState # "loading"
    /\ LET w0 == IF track.loads = 0 THEN W ELSE newDocument(W)
           w1 == [w0 EXCEPT !.track.loads = @ + 1, !.track.readyState = readyState]
       IN  Commit(IF readyState = "loading"
                  THEN [w1 EXCEPT !.track.listener = @ + 1]
                  ELSE trackVisitor(w1, now, id))

\* DOMContentLoaded, to the listener of tracking.js
TrackingContentLoaded(now, id) ==
    /\ track.readyState = "loading"
    /\ LET w1 == [W EXCEPT !.track.readyState = "interactive"]
       IN  Commit(IF track.listener > 0 THEN trackVisitor(w1, now, id) ELSE w1)

LinkIndexes == UNION {DOMAIN l : l \in LinkLists}
EntrySets == UNION {[T -> BOOLEAN] : T \in SUBSET Elements}

Next ==
    \/ AppInit
    \/ \E d \in {1} : Tick(d)
    \/ ResizeTimeout
    \/ \E key \in ThrottleKeys : ThrottleTimeout(key)
    \/ TypeTextTimeout
    \/ RemoveCursorTimeout
    \/ \E state \in {"visible", "hidden"} : VisibilityChange(state)
    \/ PauseCall
    \/ ResumeCall
    \/ \E entries \in EntrySets : Intersection(entries)
    \/ \E element \in Elements : DomInsert(element)
    \/ \E width \in Widths : ResizeEvent(width)
    \/ \E y \in ScrollYs : ScrollEvent(y)
    \/ ToggleClick
    \/ \E i \in LinkIndexes : NavLinkClick(i)
    \/ OutsideClick
    \/ ScrollTopClick
    \/ \E matches \in BOOLEAN : SystemThemeChange(matches)
    \/ ToggleThemeCall
    \/ \E readyState \in {"loading", "complete"}, now \in Times, id \in FreshIds :
           LoadPage(readyState, now, id)
    \/ \E now \in Times, id \in FreshIds : TrackingContentLoaded(now, id)

Spec == Init /\ [][Next]_vars

(***************************************************************************)
(* Specifications: the program under the pages and events each group of    *)
(* properties is about.                                                    *)
(***************************************************************************)
FullPages ==
    {p \in Pages : p.hasNavbar /\ p.hasToggle /\ p.hasMenu /\ p.heroText = <<>>}

QuietEnvs ==
    {e \in Envs : ~e.systemDark /\ e.innerWidth = 600 /\ e.storage["portfolio-theme"] = Null}

\* the orchestrator, over pages on which any of the components may fail
InitApp ==
    InitFrom({p \in Pages : /\ p.heroText = <<>>
                            /\ p.hasMetaThemeColor
                            /\ Len(p.sections) = 3},
             QuietEnvs, {{1}})

NextApp ==
    \/ AppInit
    \/ \E state \in {"visible", "hidden"} : VisibilityChange(state)
    \/ ToggleClick
    \/ ToggleThemeCall

SpecApp == InitApp /\ [][NextApp]_vars

\* the theme, over every stored value and system preference
InitTheme ==
    InitFrom({p \in FullPages : /\ p.navLinks = <<>>
                                /\ p.sections = <<>>
                                /\ p.hasIntersectionObserver},
             {e \in Envs : e.innerWidth = 600}, {{}})

NextTheme ==
    \/ AppInit
    \/ \E matches \in BOOLEAN : SystemThemeChange(matches)
    \/ ToggleThemeCall

SpecTheme == InitTheme /\ [][NextTheme]_vars

\* the animations, with and without a watcher, over every set of elements
InitAnim ==
    InitFrom({p \in FullPages : /\ p.navLinks = <<>>
                                /\ p.sections = <<>>
                                /\ p.hasMetaThemeColor
                                /\ p.hasMatchMedia},
             QuietEnvs, SUBSET Elements)

NextAnim ==
    \/ AppInit
    \/ \E entries \in EntrySets : Intersection(entries)
    \/ PauseCall
    \/ ResumeCall
    \/ \E state \in {"visible", "hidden"} : VisibilityChange(state)
    \/ \E element \in Elements : DomInsert(element)
    \/ \E width \in {1024} : ResizeEvent(width)
    \/ \E d \in {DEBOUNCE_WAIT} : Tick(d)
    \/ ResizeTimeout

SpecAnim == InitAnim /\ [][NextAnim]_vars

\* the navigation, over pages with and without its required elements
InitNav ==
    InitFrom({p \in Pages : /\ p.heroText = <<>>
                            /\ Len(p.sections) = 3
                            /\ p.hasMetaThemeColor
                            /\ p.hasMatchMedia
                            /\ p.hasIntersectionObserver},
             {e \in Envs : ~e.systemDark /\ e.storage["portfolio-theme"] = Null}, {{}})

NextNav ==
    \/ AppInit
    \/ ToggleClick
    \/ \E i \in LinkIndexes : NavLinkClick(i)
    \/ OutsideClick
    \/ \E width \in Widths : ResizeEvent(width)
    \/ \E d \in {DEBOUNCE_WAIT} : Tick(d)
    \/ ResizeTimeout

SpecNav == InitNav /\ [][NextNav]_vars

\* the throttled scroll listeners, over every list of links and sections
InitThrottle ==
    InitFrom({p \in FullPages : /\ p.hasMetaThemeColor
                                /\ p.hasMatchMedia
                                /\ p.hasIntersectionObserver},
             QuietEnvs, {{}})

NextThrottle ==
    \/ AppInit
    \/ \E y \in ScrollYs : ScrollEvent(y)
    \/ \E d \in {1} : Tick(d)
    \/ \E key \in ThrottleKeys : ThrottleTimeout(key)

SpecThrottle == InitThrottle /\ [][NextThrottle]_vars

\* the debounced resize listener and the handlers it fans out to
InitDebounce ==
    InitFrom({p \in FullPages : /\ p.navLinks = <<>>
                                /\ p.sections = <<>>
                                /\ p.hasMetaThemeColor
                                /\ p.hasMatchMedia},
             {e \in Envs : ~e.systemDark /\ e.storage["portfolio-theme"] = Null},
             SUBSET Elements)

NextDebounce ==
    \/ AppInit
    \/ \E width \in Widths : ResizeEvent(width)
    \/ \E d \in {10} : Tick(d)
    \/ ResizeTimeout
    \/ ToggleClick
    \/ \E element \in Elements : DomInsert(element)

SpecDebounce == InitDebounce /\ [][NextDebounce]_vars

\* the active link, over every list of links and sections
InitActive ==
    InitFrom({p \in FullPages : /\ p.hasMetaThemeColor
                                /\ p.hasMatchMedia
                                /\ p.hasIntersectionObserver},
             QuietEnvs, {{}})

NextActive ==
    \/ AppInit
    \/ \E y \in ScrollYs : ScrollEvent(y)
    \/ \E d \in {THROTTLE_LIMIT} : Tick(d)
    \/ \E key \in ThrottleKeys : ThrottleTimeout(key)

SpecActive == InitActive /\ [][NextActive]_vars

\* the typing effect, over pages with a headline
InitTyping ==
    InitFrom({p \in Pages : /\ p.heroText # <<>>
                            /\ p.hasNavbar /\ p.hasToggle /\ p.hasMenu
                            /\ p.hasMetaThemeColor
                            /\ p.hasMatchMedia},
             QuietEnvs, {{}, {1}})

TypingStep ==
    \/ \E d \in {TypeSpeed} : Tick(d)
    \/ TypeTextTimeout
    \/ RemoveCursorTimeout

NextTyping ==
    \/ AppInit
    \/ \E state \in {"visible", "hidden"} : VisibilityChange(state)
    \/ TypingStep

SpecTyping == InitTyping /\ [][NextTyping]_vars

\* time passes and a timeout that is due runs
SpecTypingFair == SpecTyping /\ WF_vars(TypingStep)

\* tracking.js alone, over every location and both kinds of visitor
InitTrack ==
    /\ InitDocument({p \in FullPages : /\ p.navLinks = <<>>
                                       /\ p.sections = <<>>
                                       /\ p.hasMetaThemeColor
                                       /\ p.hasMatchMedia
                                       /\ p.hasIntersectionObserver},
                    {e \in AllEnvs : /\ ~e.systemDark /\ e.innerWidth = 600
                                     /\ e.storage["portfolio-theme"] = Null},
                    {{}})
    /\ \E l \in Locations : track = Tracking_new(l)

NextTrack ==
    \/ \E readyState \in {"loading", "complete"}, now \in Times, id \in FreshIds :
           LoadPage(readyState, now, id)
    \/ \E now \in Times, id \in FreshIds : TrackingContentLoaded(now, id)

SpecTrack == InitTrack /\ [][NextTrack]_vars

(***************************************************************************)
(* Properties of the orchestrator.                                         *)
(***************************************************************************)
\* C1: a call of PortfolioApp.init() after a first call that completed is a no-op:
\* the registry holds the same four instances as after the first call, no
\* component's init() has been called again and no further visibilitychange,
\* resize or error listener is bound.
C1_SecondInitIsNoOp ==
    hist.appInitCalls >= 2 =>
        /\ app.components = hist.first.components
        /\ \A n \in Names : app.components[n] # 0
        /\ hist.initCalls = hist.first.initCalls
        /\ \A ev \in GlobalEvents : listeners[ev] = hist.first.listeners[ev]

C1_Witness ==
    /\ hist.appInitCalls = 2
    /\ app.isInitialized
    /\ \A ev \in GlobalEvents : listeners[ev] = 1

\* C2: whichever components throw from init(), PortfolioApp.init() still calls
\* init() on every registered component, binds the three global listeners and sets
\* the initialized flag, and the failure does not leave initializeComponents.
C2_InitFailuresIsolated ==
    hist.appInitCalls >= 1 =>
        /\ \A n \in Names : hist.initCalls[n] >= 1
        /\ \A ev \in GlobalEvents : listeners[ev] >= 1
        /\ app.isInitialized
        /\ ~hist.initFailed

C2_Witness ==
    /\ hist.appInitCalls >= 1
    /\ hist.threw = {"navigation", "animation", "theme"}
    /\ hist.initCalls["scroll"] = 1
    /\ scroll.scrollToTopButton

(***************************************************************************)
(* Properties of the theme.                                                *)
(***************************************************************************)
SystemTheme(dark) == IF dark THEN "dark" ELSE "light"

\* C3: a ThemeManager.init() that completes applies the stored 'portfolio-theme'
\* value when that value is 'light' or 'dark', whatever the system prefers, and
\* the system preference when the value is absent or any other string; the
\* data-theme attribute is the applied theme.
C3_ThemePrecedence ==
    [][ (hist'.initCalls["theme"] # hist.initCalls["theme"] /\ "theme" \notin hist'.threw)
          => LET saved == env'.storage["portfolio-theme"]
                 expected == IF saved \in {"light", "dark"} THEN saved
                             ELSE SystemTheme(env'.systemDark)
             IN  theme'.currentTheme = expected /\ dom'.dataTheme = expected ]_vars

C3_Witness ==
    /\ hist.initCalls["theme"] = 1
    /\ "theme" \notin hist.threw
    /\ ~hist.toggled
    /\ env.storage["portfolio-theme"] = "dark"
    /\ ~env.systemDark
    /\ ~theme.prefersDarkMode
    /\ theme.currentTheme = "dark"
    /\ dom.dataTheme = "dark"

\* C4: once toggleTheme() has been called, in that state and in every later one
\* (further toggles, system color-scheme changes) the stored 'portfolio-theme'
\* value is the current theme and hasUserPreference() is true.
C4_ToggleIsPersisted ==
    hist.toggled =>
        /\ env.storage["portfolio-theme"] = theme.currentTheme
        /\ hasUserPreference(W)

C4_Witness ==
    /\ hist.toggled
    /\ env.systemDark # theme.prefersDarkMode
    /\ theme.currentTheme # SystemTheme(env.systemDark)

\* C5: once ThemeManager.init() has subscribed, a system color-scheme change sets
\* the current theme and the data-theme attribute to the new system value when
\* nothing is stored under 'portfolio-theme', and leaves both unchanged when a
\* value is stored.
C5_SystemChangeGated ==
    [][ (env'.systemDark # env.systemDark /\ listeners["theme.change"] > 0)
          => IF env.storage["portfolio-theme"] = Null
             THEN /\ theme'.currentTheme = SystemTheme(env'.systemDark)
                  /\ dom'.dataTheme = SystemTheme(env'.systemDark)
             ELSE /\ theme'.currentTheme = theme.currentTheme
                  /\ dom'.dataTheme = dom.dataTheme ]_vars

C5_Witness ==
    /\ listeners["theme.change"] > 0
    /\ ~hist.toggled
    /\ env.storage["portfolio-theme"] = "blue"
    /\ env.systemDark # theme.prefersDarkMode
    /\ theme.currentTheme # SystemTheme(env.systemDark)
    /\ dom.dataTheme = theme.currentTheme

(***************************************************************************)
(* Properties of the animations.                                           *)
(***************************************************************************)
\* C6: while the AnimationManager is paused (by pause() or by the page becoming
\* hidden) no step, an intersection callback included, adds the 'animated' class
\* to any element; every element a callback reports as intersecting while the
\* manager is not paused (never paused, or resumed by resume() or by the page
\* becoming visible) is marked animated.
C6_PauseGatesAnimation ==
    /\ [][anim.isAnimationPaused => dom'.animated = dom.animated]_vars
    /\ [](hist.reported \subseteq dom.animated)

C6_Witness ==
    /\ env.visibilityState = "visible"
    /\ ~anim.isAnimationPaused
    /\ \E e \in Elements : e \in hist.reportedPaused /\ e \in hist.reported /\ e \in dom.animated
    /\ \E e \in Elements : e \in hist.reportedPaused /\ e \notin dom.animated

\* C7: over intersection callbacks, pause/resume and resize events every element
\* is passed to animateElement at most once, and an element that has been animated
\* is no longer observed by the watcher.
C7_AnimatedAtMostOnce ==
    \A e \in Elements :
        /\ hist.animateCount[e] <= 1
        /\ e \in dom.animated => (hist.animateCount[e] = 1 /\ e \notin anim.targets)

C7_Witness ==
    /\ \A e \in Elements : hist.animateCount[e] = 1 /\ e \in anim.observedElements
    /\ "animation" \in hist.fanout
    /\ hist.reportedPaused # {}

(***************************************************************************)
(* Properties of the navigation.                                           *)
(***************************************************************************)
\* C8: in every state after NavigationManager.init(), through toggle clicks,
\* nav-link clicks, outside clicks and resize events, isMenuOpen is true exactly
\* when the nav menu carries 'active' and exactly when the toggle carries it.
C8_MenuStateInSync ==
    hist.initCalls["navigation"] >= 1 =>
        /\ nav.isMenuOpen = dom.navMenuActive
        /\ nav.isMenuOpen = dom.navToggleActive

C8_Witness ==
    /\ nav.isMenuOpen
    /\ dom.navMenuActive
    /\ dom.navToggleActive
    /\ "navigation" \in hist.fanout
    /\ Len(nav.navLinks) = 2

(***************************************************************************)
(* Properties of the rate-limiting wrappers.                               *)
(***************************************************************************)
\* C9: a function wrapped by throttle(func, limit) is invoked at most once per
\* limit-millisecond window: two invocations are at least limit ms apart, calls
\* made in one instant invoke it at most once, and an invocation opens a window
\* (inThrottle) that lasts until its timer fires.
C9_ThrottleOncePerWindow ==
    \A key \in ThrottleKeys :
        /\ hist.gap[key] >= THROTTLE_LIMIT
        /\ hist.invokedNow[key] <= 1
        /\ hist.sinceInvoke[key] < THROTTLE_LIMIT => timers.inThrottle[key]

\* C10: the resize listener is debounced by 250 ms: PortfolioApp.handleResize is
\* never run less than 250 ms after a resize event, every burst of events less
\* than 250 ms apart is followed by exactly one run, made 250 ms after the last
\* event of the burst, and the run calls handleResize of every component that
\* has one (navigation and animation).
C10_DebounceLastCallFires ==
    hist.resized =>
        /\ hist.runAt >= DEBOUNCE_WAIT
        /\ ~hist.burstLost
        /\ hist.runs <= 1
        /\ hist.sinceResize < DEBOUNCE_WAIT =>
               (hist.runs = 0 /\ timers.timeout = DEBOUNCE_WAIT - hist.sinceResize)
        /\ (hist.sinceResize >= DEBOUNCE_WAIT /\ timers.timeout = NoTimer) =>
               (hist.runs = 1 /\ hist.fanout = {"navigation", "animation"})

C10_Witness ==
    /\ hist.resized
    /\ hist.burst >= 2
    /\ hist.runs = 1
    /\ timers.timeout = NoTimer
    /\ hist.fanout = {"navigation", "animation"}

(***************************************************************************)
(* Properties of the active link.                                          *)
(***************************************************************************)
\* the sections whose top is at or above a position, and the last of them
Qualifying(position) ==
    {i \in 1..Len(page.sections) : page.sections[i].top <= position}

LastQualifying(position) ==
    CHOOSE i \in Qualifying(position) : \A j \in Qualifying(position) : j <= i

\* the links whose href is '#' followed by an id
LinksTo(id) ==
    {i \in 1..Len(page.navLinks) :
        page.navLinks[i].hasHref /\ page.navLinks[i].href = <<"#">> \o id}

\* C11: after setActiveLink(), when some section's top is at or above
\* scrollY + navbarHeight + 100, the active nav links are exactly the links whose
\* href targets the last such section (for tops 0, 500, 1000 and position 600,
\* the links to the section at 500).
C11_ActiveLinkIsCurrentSection ==
    (hist.activePosition # NoPosition /\ Qualifying(hist.activePosition) # {}) =>
        dom.activeLinks =
            LinksTo(page.sections[LastQualifying(hist.activePosition)].id)

\* C12: after setActiveLink(), when no section's top is at or above
\* scrollY + navbarHeight + 100, no nav link carries the 'active' class.
C12_NoSectionNoActiveLink ==
    (hist.activePosition # NoPosition /\ Qualifying(hist.activePosition) = {}) =>
        dom.activeLinks = {}

(***************************************************************************)
(* Properties of the navigation start-up.                                  *)
(***************************************************************************)
NavListeners ==
    {"nav.toggle.click", "nav.link.click", "nav.document.click", "nav.scroll"}

RequiredElementMissing == ~page.hasNavbar \/ ~page.hasToggle \/ ~page.hasMenu

\* C13: when the navbar, the toggle or the menu is missing, NavigationManager.init()
\* throws before it binds a click or scroll listener and leaves isMenuOpen alone;
\* inside PortfolioApp.init() only navigation is aborted: scroll, animation and
\* theme are still initialized (each as far as its own browser API exists).
C13_MissingElementAbortsOnlyNavigation ==
    (hist.appInitCalls >= 1 /\ RequiredElementMissing) =>
        /\ "navigation" \in hist.threw
        /\ \A l \in NavListeners : listeners[l] = 0
        /\ ~nav.isMenuOpen
        /\ \A n \in {"scroll", "animation", "theme"} : hist.initCalls[n] >= 1
        /\ "scroll" \notin hist.threw
        /\ scroll.scrollToTopButton /\ listeners["scroll.scroll"] >= 1
        /\ page.hasIntersectionObserver =>
               ("animation" \notin hist.threw /\ anim.intersectionObserver)
        /\ page.hasMatchMedia =>
               /\ "theme" \notin hist.threw
               /\ listeners["theme.change"] >= 1
               /\ dom.dataTheme = theme.currentTheme

C13_Witness ==
    /\ hist.appInitCalls >= 1
    /\ page.hasNavbar /\ ~page.hasToggle /\ page.hasMenu
    /\ hist.threw = {"navigation"}
    /\ anim.intersectionObserver
    /\ listeners["theme.change"] = 1
    /\ hist.toggled

(***************************************************************************)
(* Properties of the clicks on the menu.                                   *)
(***************************************************************************)
\* a step in which a click of this kind is delivered to the navigation listeners
ClickStep(kind) == hist'.click # hist.click /\ hist'.click.kind = kind

ClickedLink == page.navLinks[hist'.click.link]

\* C17: after a click on a nav link whose href starts with '#', the default
\* navigation is suppressed and the mobile menu is closed, whether it was open or
\* closed before and whether or not the target exists.
C17_AnchorClickClosesMenu ==
    [][(ClickStep("link") /\ ClickedLink.hasHref /\ startsWithHash(ClickedLink.href)) =>
           (hist'.defaultPrevented /\ ~nav'.isMenuOpen)]_vars

\* C18: a click on the toggle flips the menu state exactly once (the document
\* listener that receives the same click does not flip it back), so after n clicks
\* on the toggle from a closed menu the menu is open exactly when n is odd.
C18_ToggleClickFlipsOnce ==
    /\ [][ClickStep("toggle") => nav'.isMenuOpen = ~nav.isMenuOpen]_vars
    /\ []((hist.onlyToggles /\ ~hist.resized) => (nav.isMenuOpen <=> hist.toggles = 1))

C18_Witness ==
    /\ nav.isMenuOpen
    /\ hist.click.kind = "toggle" /\ hist.toggles = 1 /\ hist.click.seq = 1
    /\ hist.onlyToggles
    /\ listeners["nav.document.click"] > 0

\* C19: a click outside the menu and the toggle closes an open menu; on a closed
\* menu it leaves the menu closed and changes nothing of the navigation.
C19_OutsideClickCloses ==
    [][ClickStep("outside") =>
           /\ ~nav'.isMenuOpen
           /\ ~nav.isMenuOpen => (nav' = nav /\ dom' = dom /\ env' = env)]_vars

C19_Witness ==
    /\ ~nav.isMenuOpen /\ dom.ariaExpanded = "false" /\ dom.bodyOverflow = ""
    /\ hist.click.kind = "outside"
    /\ hist.toggles = 1
    /\ Len(page.navLinks) = 0 /\ ~hist.resized

(***************************************************************************)
(* Properties of the typing effect.                                        *)
(***************************************************************************)
IsPrefix(a, b) == Len(a) <= Len(b) /\ a = SubSeq(b, 1, Len(a))

\* addTypingEffect has run on a page with a headline
TypingStarted ==
    /\ page.heroText # <<>>
    /\ hist.initCalls["animation"] >= 1
    /\ "animation" \notin hist.threw

TypingDone ==
    /\ TypingStarted
    /\ dom.heroText = page.heroText
    /\ ~dom.heroCursor
    /\ timers.typeText = NoTimer /\ timers.removeCursor = NoTimer

\* C20: when the headline exists the typing effect terminates: the displayed text
\* is always a prefix of the original text, a typing timer step with characters
\* left appends exactly the next character, and the text eventually equals the
\* original, after which the cursor style is removed and no typing timer is
\* scheduled again.
C20_TypingTerminates ==
    /\ [](IsPrefix(dom.heroText, page.heroText))
    /\ [][/\ dom'.heroText # dom.heroText =>
                 \/ dom'.heroText = <<>>
                 \/ /\ Len(dom.heroText) < Len(page.heroText)
                    /\ dom'.heroText =
                           Append(dom.heroText, page.heroText[Len(dom.heroText) + 1])
          /\ (timers.typeText = 0 /\ timers'.typeText # 0
                 /\ Len(dom.heroText) < Len(page.heroText)) =>
                 Len(dom'.heroText) = Len(dom.heroText) + 1]_vars
    /\ TypingStarted ~> TypingDone
    /\ [][TypingDone => TypingDone']_vars

C20_Witness ==
    /\ TypingDone
    /\ Len(page.heroText) = 2
    /\ anim.charIndex = 2

(***************************************************************************)
(* Properties of the visitor tracking.                                     *)
(***************************************************************************)
Given(name) == track.location.search[name] # Null

NonEmpty(name) == Given(name) /\ track.location.search[name] # ""

\* the value of the first parameter of the list that is given, else the default
FirstGiven(names, default) ==
    IF \E i \in 1..Len(names) : Given(names[i])
    THEN LET i == CHOOSE i \in 1..Len(names) :
                      Given(names[i]) /\ \A j \in 1..(i - 1) : ~Given(names[j])
         IN  track.location.search[names[i]]
    ELSE default

\* the value of the first parameter of the list that is given and not empty
FirstNonEmpty(names, default) ==
    IF \E i \in 1..Len(names) : NonEmpty(names[i])
    THEN LET i == CHOOSE i \in 1..Len(names) :
                      NonEmpty(names[i]) /\ \A j \in 1..(i - 1) : ~NonEmpty(names[j])
         IN  track.location.search[names[i]]
    ELSE default

\* C14, as stated: the source of the payload is the value of `source` when it is
\* given, otherwise of `utm_source`, otherwise of `ref`, otherwise 'direct'; campaign
\* comes from `campaign` then `utm_campaign`, medium from `medium` then
\* `utm_medium`, each defaulting to the empty string.
C14_FirstGivenParameter ==
    \A i \in 1..Len(track.logged) :
        /\ track.logged[i].source = FirstGiven(SourceParams, "direct")
        /\ track.logged[i].campaign = FirstGiven(CampaignParams, "")
        /\ track.logged[i].medium = FirstGiven(MediumParams, "")

\* C14, amended: the source of the payload is the value of the first of `source`,
\* `utm_source`, `ref` that is given with a non-empty value, and 'direct' when there
\* is none; campaign and medium likewise from their lists, defaulting to ''.
C14_FirstNonEmptyParameter ==
    \A i \in 1..Len(track.logged) :
        /\ track.logged[i].source = FirstNonEmpty(SourceParams, "direct")
        /\ track.logged[i].campaign = FirstNonEmpty(CampaignParams, "")
        /\ track.logged[i].medium = FirstNonEmpty(MediumParams, "")

C14_Witness ==
    /\ Len(track.logged) = 1
    /\ track.location.search["source"] = ""
    /\ track.location.search["utm_source"] = "utm_source"
    /\ track.logged[1].source = "utm_source"
    /\ ~Given("campaign") /\ NonEmpty("utm_campaign")
    /\ track.logged[1].campaign = "utm_campaign"
    /\ ~Given("medium") /\ ~Given("utm_medium")
    /\ track.logged[1].medium = ""

\* the page load has run trackVisitor
Tracked == track.readyState \in {"interactive", "complete"}

IsLocal == track.location.hostname \in LocalHosts

\* C15: the payload is a function of the URL and the storage and not of the host:
\* a local host (localhost, 127.0.0.1) logs the payload a public host logs; a page
\* load attempts the send exactly once on a public host and never on a local one.
C15_SamePayloadSendOnlyWhenPublic ==
    /\ ~Tracked => (track.logged = <<>> /\ track.sent = <<>>)
    /\ Tracked =>
          /\ Len(track.logged) = 1
          /\ track.logged[1] =
                 [ source |-> FirstNonEmpty(SourceParams, "direct"),
                   campaign |-> FirstNonEmpty(CampaignParams, ""),
                   medium |-> FirstNonEmpty(MediumParams, ""),
                   referrer |-> track.location.referrer,
                   user_agent |-> track.location.userAgent,
                   page |-> track.location.pathname,
                   timestamp |-> track.logged[1].timestamp,
                   visitor_id |-> env.storage["visitor_id"] ]
          /\ track.sent = IF IsLocal THEN <<>> ELSE track.logged

C15_Witness ==
    /\ Tracked
    /\ track.location.hostname = "127.0.0.1"
    /\ track.loads = 2
    /\ track.sent = <<>>
    /\ track.logged[1].source = "utm_source"
    /\ track.logged[1].campaign = "utm_campaign"

\* C16: the visitor identifier is generated at most once: a page load that finds
\* 'visitor_id' stored reports the stored value and does not write the storage, so
\* every page load reports the identifier the first one reported.
C16_VisitorIdGeneratedOnce ==
    /\ [][(track'.calls # track.calls /\ env.storage["visitor_id"] # Null) =>
              /\ env'.storage = env.storage
              /\ track'.logged[1].visitor_id = env.storage["visitor_id"]]_vars
    /\ [](track.generated <= 1 /\ Cardinality(track.reported) <= 1)

C16_Witness ==
    /\ track.calls = 2
    /\ track.generated = 1
    /\ track.reported = {env.storage["visitor_id"]}
    /\ Len(track.logged) = 1

(***************************************************************************)
(* Properties of the observation of elements.                              *)
(***************************************************************************)
\* a step in which AnimationManager.handleResize runs (the debounced resize fires)
AnimationResizeStep ==
    timers.timeout = 0 /\ timers'.timeout # 0 /\ "animation" \in hist'.fanout

\* the observed elements without those removed after their qualifying intersection
CurrentlyTracked == anim.observedElements \ dom.animated

\* C21: AnimationManager.handleResize() re-runs the observation setup exactly when
\* no element is currently tracked, the tracked set being the observed elements
\* from which an element is removed after its first qualifying intersection; when
\* an element is tracked, handleResize() changes nothing.
C21_ResizeReobservesWhenNothingTracked ==
    [][AnimationResizeStep =>
           /\ hist'.reobserved <=> (CurrentlyTracked = {})
           /\ CurrentlyTracked # {} => (anim' = anim /\ dom' = dom)]_vars

\* C22: an element reported as intersecting while the animations are paused is
\* neither animated nor unobserved by that report: as long as it is not animated
\* the watcher keeps observing it, and the next report of it as intersecting that
\* is delivered while not paused animates it; pause() and resume() themselves
\* animate and unobserve nothing.
C22_PausedReportKeepsElementObserved ==
    /\ [][anim.isAnimationPaused =>
              (dom'.animated = dom.animated /\ anim.targets \subseteq anim'.targets)]_vars
    /\ [](\A e \in hist.reportedPaused : e \notin dom.animated => e \in anim.targets)
    /\ [][\A e \in hist.reportedPaused :
              (e \in hist'.reported /\ e \notin hist.reported) =>
                  (e \in dom'.animated /\ e \notin anim'.targets)]_vars
    /\ [][anim'.isAnimationPaused # anim.isAnimationPaused =>
              (dom'.animated = dom.animated /\ anim'.targets = anim.targets)]_vars

C22_Witness ==
    /\ ~anim.isAnimationPaused
    /\ \E e \in Elements :
          /\ e \in hist.reportedPaused /\ e \in hist.reported
          /\ e \in dom.animated /\ e \notin anim.targets
          /\ hist.animateCount[e] = 1
    /\ \E e \in Elements :
          e \in hist.reportedPaused /\ e \notin hist.reported /\ e \in anim.targets

(***************************************************************************)
(* Properties of the applied theme.                                        *)
(***************************************************************************)
\* ThemeManager.init() has run to its end
ThemeInitialized == hist.initCalls["theme"] >= 1 /\ "theme" \notin hist.threw

\* C23: in every state after ThemeManager.init(), over toggleTheme() calls and
\* system color-scheme changes, currentTheme is 'light' or 'dark', the data-theme
\* attribute equals currentTheme, and the content of the meta theme-color tag,
\* when the tag exists, is '#1e293b' for 'dark' and '#ffffff' otherwise.
C23_AppliedThemeInSync ==
    ThemeInitialized =>
        /\ theme.currentTheme \in {"light", "dark"}
        /\ dom.dataTheme = theme.currentTheme
        /\ page.hasMetaThemeColor =>
               dom.metaThemeColor =
                   IF theme.currentTheme = "dark" THEN "#1e293b" ELSE "#ffffff"

C23_Witness ==
    /\ ThemeInitialized
    /\ hist.toggled
    /\ env.systemDark # theme.prefersDarkMode
    /\ page.hasMetaThemeColor
    /\ theme.currentTheme = "dark"
    /\ dom.dataTheme = "dark"
    /\ dom.metaThemeColor = "#1e293b"

====
